---- MODULE Spec2Model ----
(***************************************************************************)
(* FLOWER cluster formation (flower/flower_sim.py): the set cover over     *)
(* grid cells (init_cells), the virtual clusters (create_virtual_clusters),*)
(* the choice of strategy (compute_paths), the 1:1 mapping                 *)
(* (handle_large_em) and the greedy expansion (greedy_expansion).          *)
(*                                                                         *)
(* The grid, the cluster classes, closest_nodes, combine_clusters and the  *)
(* energy model live in other modules of the repository (flower.grid,      *)
(* flower.cluster, core.cluster, flower.energy); they are modelled from    *)
(* their documented interface, and what the interface leaves open (the     *)
(* values the energy model returns, the order of equally distant cells)    *)
(* is a nondeterministic choice.                                           *)
(***************************************************************************)
EXTENDS Integers, Sequences, FiniteSets, TLC

\* ----------------------------------------------------------------- bounds
Rows == 3
Cols == 3
NumSegs == 2
MaxAccess == 2
MaxActive == 3
MaxCover == 5
MaxMdc == 4
MaxEnergy == 6
EnergyLevels == 2
TopRows == 2

\* ------------------------------------------------------------- constants
\* candidate = None
NoCell == 0
\* the tour-id of a cell that is in no cluster
NOT_CLUSTERED == -1

\* ------------------------------------------------------------------ grid
NumCells == Rows * Cols
Cells == 1 .. NumCells

\* grid.cells(): the list of the cells, row by row
CellList == [i \in 1 .. NumCells |-> i]

RowOf(c) == (c - 1) \div Cols
ColOf(c) == (c - 1) % Cols
CellAt(r, k) == r * Cols + k + 1

Abs(x) == IF x < 0 THEN -x ELSE x
Max2(a, b) == IF a < b THEN b ELSE a

\* grid.cell_distance: the lattice distance between two cells
cell_distance(a, b) == Max2(Abs(RowOf(a) - RowOf(b)), Abs(ColOf(a) - ColOf(b)))

\* grid.cell_neighbors(row, col, radius): the cells of the ring around a cell
cell_neighbors(c, radius) == {n \in Cells : cell_distance(c, n) = radius}

\* cell.neighbors
neighbors(c) == cell_neighbors(c, 1)

\* self.damaged = self.grid.center()
damaged == CellAt(Rows \div 2, Cols \div 2)

\* much_greater_than: r = 0.2, as R_NUM / R_DEN
R_NUM == 1
R_DEN == 5

VARIABLES
    pc,              \* the place of the planning run
    err,             \* the exception that ended the run, or "none"
    mdc_count,       \* self.env.mdc_count
    segments,        \* self.segments
    cell_access,     \* cell.access
    cell_segments,   \* cell.segments
    segment_cover,   \* init_cells: segment_cover
    cell_cover,      \* init_cells: cell_cover
    picks,           \* init_cells: the cells of cell_cover, in the order added
    seg_cell,        \* seg.cell
    cells,           \* self.cells
    virtual_clusters, \* self.virtual_clusters (the local list while it is built)
    mech_energy,     \* self.mech_energy
    comms_energy,    \* self.comms_energy
    em_is_large,     \* self.em_is_large
    ec_is_large,     \* self.ec_is_large
    clusters,        \* self.clusters
    hub,             \* self.hub
    cluster_id,      \* cell.cluster_id
    r_count,         \* the balancers' r: the rounds that moved a cell
    total_energy,    \* total_energy of each of all_clusters, as they are
    entry            \* the energies at the entry of the balancing loop

vars == <<pc, err, mdc_count, segments, cell_access, cell_segments, segment_cover,
          cell_cover, picks, seg_cell, cells, virtual_clusters, mech_energy,
          comms_energy, em_is_large, ec_is_large, clusters, hub, cluster_id,
          r_count, total_energy, entry>>

branchVars == <<mech_energy, comms_energy, em_is_large, ec_is_large>>
growVars == <<clusters, hub, cluster_id>>
balanceVars == <<r_count, total_energy, entry>>

gridVars == <<mdc_count, segments, cell_access, cell_segments>>
coverVars == <<segment_cover, cell_cover, picks, seg_cell, cells>>

\* ------------------------------------------------------------ init_cells
\* cell.proximity
proximity(c) == cell_distance(c, damaged)

\* cell.signal_hop_count
signal_hop_count(c) ==
    Cardinality(UNION {cell_segments[n] : n \in neighbors(c)})

PotUnion(cover, c) == Cardinality(cover \cup cell_segments[c])

Challenge_TiesOnly(candidate, cell, cover) ==
    IF cell_access[candidate] < cell_access[cell] THEN cell
    ELSE IF signal_hop_count(candidate) < signal_hop_count(cell) THEN cell
    ELSE IF proximity(candidate) > proximity(cell) THEN cell
    ELSE candidate

\* one comparison of the running candidate with a cell
Challenge(candidate, cell, cover) ==
    IF PotUnion(cover, candidate) < PotUnion(cover, cell) THEN cell
    ELSE IF PotUnion(cover, candidate) = PotUnion(cover, cell) THEN
        IF cell_access[candidate] < cell_access[cell] THEN cell
        ELSE IF signal_hop_count(candidate) < signal_hop_count(cell) THEN cell
        ELSE IF proximity(candidate) > proximity(cell) THEN cell
        ELSE candidate
    ELSE candidate

RECURSIVE Scan_NoSkip(_, _, _)
Scan_NoSkip(i, candidate, cover) ==
    IF i > NumCells THEN candidate
    ELSE IF cell_access[i] = 0 THEN Scan_NoSkip(i + 1, candidate, cover)
    ELSE LET cand == IF candidate = NoCell THEN i ELSE candidate IN
         IF cover = {} THEN cand
         ELSE Scan_NoSkip(i + 1, Challenge(cand, i, cover), cover)

\* the for loop over the cells, from cell i on, with the candidate so far
RECURSIVE Scan(_, _, _)
Scan(i, candidate, cover) ==
    IF i > NumCells THEN candidate
    ELSE IF cell_access[i] = 0 THEN Scan(i + 1, candidate, cover)
    ELSE LET cand == IF candidate = NoCell THEN i ELSE candidate IN
         IF cover = {} THEN cand
         ELSE IF i = damaged THEN Scan(i + 1, cand, cover)
         ELSE Scan(i + 1, Challenge(cand, i, cover), cover)

Candidate(cover) == Scan(1, NoCell, cover)

\* one turn of the while loop
CoverPick ==
    /\ pc = "init_cells"
    /\ segment_cover # segments
    /\ LET candidate == Candidate(segment_cover) IN
       IF candidate = NoCell
       THEN /\ pc' = "failed"
            /\ err' = "AttributeError"
            /\ UNCHANGED <<segment_cover, cell_cover, picks>>
       ELSE /\ segment_cover' = segment_cover \cup cell_segments[candidate]
            /\ cell_cover' = cell_cover \cup {candidate}
            /\ picks' = IF candidate \in cell_cover
                        THEN picks ELSE Append(picks, candidate)
            /\ UNCHANGED <<pc, err>>
    /\ UNCHANGED <<gridVars, balanceVars, seg_cell, cells, virtual_clusters, branchVars,
                   growVars>>

\* the cell a segment refers to after the loop over the cover: the last
\* cover cell, in the set's order, that reaches it
Stamp(cover, order) ==
    [s \in segments |->
        LET reach == {i \in 1 .. Len(order) :
                         order[i] \in cover /\ s \in cell_segments[order[i]]}
        IN IF reach = {} THEN seg_cell[s]
           ELSE order[CHOOSE i \in reach : \A j \in reach : j <= i]]

\* the orders in which a set can be iterated
Orders(S) ==
    {f \in [1 .. Cardinality(S) -> S] : \A x \in S : \E i \in DOMAIN f : f[i] = x}

CoverSuffices_Loose(size) == mdc_count <= size

\* assert self.env.mdc_count < len(cell_cover)
CoverSuffices(size) == mdc_count < size

\* the end of init_cells: the assertion, the back-references, self.cells
CoverCheck ==
    /\ pc = "init_cells"
    /\ segment_cover = segments
    /\ IF CoverSuffices(Cardinality(cell_cover))
       THEN /\ \E order \in Orders(cell_cover) :
                  seg_cell' = Stamp(cell_cover, order)
            /\ cells' = cell_cover
            /\ pc' = "create_virtual_clusters"
            /\ err' = err
       ELSE /\ pc' = "failed"
            /\ err' = "AssertionError"
            /\ UNCHANGED <<seg_cell, cells>>
    /\ UNCHANGED <<gridVars, balanceVars, segment_cover, cell_cover, picks, virtual_clusters,
                   branchVars, growVars>>

\* ------------------------------------------------ create_virtual_clusters
RECURSIVE SumCols(_)
SumCols(S) ==
    IF S = {} THEN 0
    ELSE LET x == CHOOSE y \in S : TRUE IN ColOf(x) + SumCols(S \ {x})

RECURSIVE SumRows(_)
SumRows(S) ==
    IF S = {} THEN 0
    ELSE LET x == CHOOSE y \in S : TRUE IN RowOf(x) + SumRows(S \ {x})

MinOf(S) == CHOOSE x \in S : \A y \in S : x <= y

\* a list of clusters, from a set of disjoint cell sets
RECURSIVE ListOf(_)
ListOf(sets) ==
    IF sets = {} THEN <<>>
    ELSE LET first == CHOOSE a \in sets : \A b \in sets : MinOf(a) <= MinOf(b)
         IN <<first>> \o ListOf(sets \ {first})

\* FlowerVirtualCluster(self.virtual_hub), after c.add(cell)
VirtualCluster(members) == [cluster_id |-> NOT_CLUSTERED, cells |-> members]

SqDist(a, b) ==
    (RowOf(a) - RowOf(b)) * (RowOf(a) - RowOf(b))
    + (ColOf(a) - ColOf(b)) * (ColOf(a) - ColOf(b))

\* the distance of the two closest cells of two collections
NodesDist(A, B) ==
    MinOf({SqDist(a, b) : a \in A, b \in B})

\* core.cluster.closest_nodes: the pairs it can return
closest_nodes(A, B) ==
    {p \in A \X B : SqDist(p[1], p[2]) = NodesDist(A, B)}

\* core.cluster.combine_clusters: the lists it can return
combine_clusters(vcs) ==
    LET n == Len(vcs)
        pairs == {p \in (1 .. n) \X (1 .. n) : p[1] < p[2]}
        d(p) == NodesDist(vcs[p[1]].cells, vcs[p[2]].cells)
        nearest == {p \in pairs : \A q \in pairs : d(p) <= d(q)}
    IN {[i \in 1 .. n - 1 |->
            LET merged == ListOf(
                    {vcs[k].cells : k \in (1 .. n) \ {p[1], p[2]}}
                    \cup {vcs[p[1]].cells \cup vcs[p[2]].cells})
            IN VirtualCluster(merged[i])] : p \in nearest}

\* c.location.nd, as the sums of the members' coordinates and their number
location(c) ==
    [x |-> SumCols(c.cells), y |-> SumRows(c.cells),
     n |-> Cardinality(c.cells)]

\* itemgetter(0, 1): p before q in the order of (x, y)
KeyLess(p, q) ==
    \/ p.x * q.n < q.x * p.n
    \/ p.x * q.n = q.x * p.n /\ p.y * q.n < q.y * p.n

\* min(points, key=itemgetter(0, 1))
Origin(points) ==
    LET first == CHOOSE i \in DOMAIN points :
            /\ \A j \in DOMAIN points : ~KeyLess(points[j], points[i])
            /\ \A j \in DOMAIN points :
                   j < i => KeyLess(points[i], points[j])
    IN points[first]

\* point - origin, scaled by a positive factor
Vector(point, origin) ==
    [x |-> point.x * origin.n - origin.x * point.n,
     y |-> point.y * origin.n - origin.y * point.n]

\* where arctan2(v.y, v.x) lies: below 0, at 0, between 0 and pi, at pi
Zone(v) ==
    IF v.y < 0 THEN 0
    ELSE IF v.y > 0 THEN 2
    ELSE IF v.x >= 0 THEN 1 ELSE 3

\* arctan2(v.y, v.x) < arctan2(w.y, w.x)
AngleLess(v, w) ==
    \/ Zone(v) < Zone(w)
    \/ /\ Zone(v) = Zone(w)
       /\ Zone(v) \in {0, 2}
       /\ v.x * w.y - v.y * w.x > 0

polar_angle_less_Reversed(p, q, origin) ==
    AngleLess(Vector(q, origin), Vector(p, origin))

\* _polar_angle(p, origin) < _polar_angle(q, origin)
polar_angle_less(p, q, origin) ==
    AngleLess(Vector(p, origin), Vector(q, origin))

\* _polar_sort: the orders np.argsort can give, as the place (from 0) of
\* each cluster of the list in the sorted list
polar_sort(list) ==
    LET n == Len(list)
        points == [i \in 1 .. n |-> location(list[i])]
        origin == Origin(points)
    IN {place \in [1 .. n -> 0 .. n - 1] :
           /\ \A i, j \in 1 .. n : i # j => place[i] # place[j]
           /\ \A i, j \in 1 .. n :
                  polar_angle_less(points[i], points[j], origin)
                      => place[i] < place[j]}

\* the singleton clusters, in the order in which the set self.cells is
\* iterated
VcStart ==
    /\ pc = "create_virtual_clusters"
    /\ \E order \in Orders(cells) :
           virtual_clusters' =
               [i \in DOMAIN order |-> VirtualCluster({order[i]})]
    /\ pc' = "combine"
    /\ UNCHANGED <<err, gridVars, balanceVars, coverVars, branchVars, growVars>>

KeepCombining_Strict(count) == count > mdc_count

\* while len(virtual_clusters) >= self.env.mdc_count
KeepCombining(count) == count >= mdc_count

\* one turn of the while loop
VcCombine ==
    /\ pc = "combine"
    /\ KeepCombining(Len(virtual_clusters))
    /\ virtual_clusters' \in combine_clusters(virtual_clusters)
    /\ UNCHANGED <<pc, err, gridVars, balanceVars, coverVars, branchVars, growVars>>

\* the sort and the new ids
VcRelabel ==
    /\ pc = "combine"
    /\ ~KeepCombining(Len(virtual_clusters))
    /\ \E place \in polar_sort(virtual_clusters) :
           virtual_clusters' =
               [i \in DOMAIN virtual_clusters |->
                   [virtual_clusters[i] EXCEPT !.cluster_id = place[i]]]
    /\ pc' = "compute_paths"
    /\ UNCHANGED <<err, gridVars, balanceVars, coverVars, branchVars, growVars>>

\* --------------------------------------------------------- compute_paths
much_greater_than_Swapped(lhs, rhs) == lhs * R_DEN < R_NUM * rhs

\* rhs / lhs < r, for lhs > 0
much_greater_than(lhs, rhs) == rhs * R_DEN < R_NUM * lhs

\* the values of total_sim_movement_energy and total_sim_comms_energy: one
\* of them low, the other high, on the two sides of the threshold
EnergyPairs ==
    {<<MaxEnergy - 1, 1>>, <<MaxEnergy, 1>>, <<1, MaxEnergy - 1>>, <<1, MaxEnergy>>}

\* the energies of the whole field, and the strategy
ComputePaths ==
    /\ pc = "compute_paths"
    /\ \E e \in EnergyPairs :
           /\ mech_energy' = e[1]
           /\ comms_energy' = e[2]
           /\ IF much_greater_than(mech_energy', comms_energy')
              THEN /\ em_is_large' = TRUE
                   /\ ec_is_large' = ec_is_large
                   /\ pc' = "handle_large_em"
              ELSE IF much_greater_than(comms_energy', mech_energy')
              THEN /\ ec_is_large' = TRUE
                   /\ em_is_large' = em_is_large
                   /\ pc' = "handle_large_ec"
              ELSE /\ UNCHANGED <<em_is_large, ec_is_large>>
                   /\ pc' = "greedy_expansion"
    /\ UNCHANGED <<err, gridVars, balanceVars, coverVars, virtual_clusters, growVars>>

\* ----------------------------------------------------------- the clusters
\* the id of the hub: the one after the ids of the virtual clusters
hub_id == mdc_count - 1

\* FlowerCluster(self.hub), with its id set
FlowerCluster(id) ==
    [cluster_id |-> id, cells |-> {}, completed |-> FALSE, recent |-> NoCell]

\* c.add(cell): the cluster after it
ClusterAdd(c, cell) ==
    [c EXCEPT !.cells = @ \cup {cell}, !.recent = cell]

\* cell.virtual_cluster_id
virtual_cluster_id(c) ==
    IF \E i \in DOMAIN virtual_clusters : c \in virtual_clusters[i].cells
    THEN virtual_clusters[
             CHOOSE i \in DOMAIN virtual_clusters :
                 c \in virtual_clusters[i].cells].cluster_id
    ELSE NOT_CLUSTERED

\* ------------------------------------------------------- handle_large_em
MirrorOf_Short(vc) ==
    {[FlowerCluster(vc.cluster_id) EXCEPT !.cells = vc.cells \ {last},
                                          !.recent = last] :
        last \in vc.cells}

\* a cluster with the id and the cells of a virtual cluster, the last cell
\* added being any of them
MirrorOf(vc) ==
    {[FlowerCluster(vc.cluster_id) EXCEPT !.cells = vc.cells, !.recent = last] :
        last \in vc.cells}

\* the tour-ids after the cells of the clusters of a list were added to them
Stamped(list) ==
    [c \in Cells |->
        IF \E i \in DOMAIN list : c \in list[i].cells
        THEN list[CHOOSE i \in DOMAIN list : c \in list[i].cells].cluster_id
        ELSE cluster_id[c]]

handle_large_em ==
    /\ pc \in {"handle_large_em", "handle_large_ec"}
    /\ \E made \in [DOMAIN virtual_clusters -> UNION {MirrorOf(virtual_clusters[i]) :
                                                   i \in DOMAIN virtual_clusters}] :
           /\ \A i \in DOMAIN virtual_clusters :
                  made[i] \in MirrorOf(virtual_clusters[i])
           /\ clusters' = clusters \o made
           /\ cluster_id' = Stamped(made)
    /\ pc' = IF pc = "handle_large_em" THEN "em_done" ELSE "balance_neighbors"
    /\ UNCHANGED <<err, gridVars, balanceVars, coverVars, virtual_clusters, branchVars, hub>>

\* ------------------------------------------------------ greedy_expansion
\* the first round: a cluster for each virtual cluster, with the cell of it
\* closest to the hub
GreedyFirst ==
    /\ pc = "greedy_expansion"
    /\ \E closest \in [DOMAIN virtual_clusters -> Cells] :
           /\ \A i \in DOMAIN virtual_clusters :
                  \E p \in closest_nodes(virtual_clusters[i].cells, hub.cells) :
                      closest[i] = p[1]
           /\ LET made == [i \in DOMAIN virtual_clusters |->
                              ClusterAdd(FlowerCluster(virtual_clusters[i].cluster_id),
                                         closest[i])]
              IN /\ clusters' = clusters \o made
                 /\ cluster_id' = Stamped(made)
    /\ pc' = "expand"
    /\ UNCHANGED <<err, gridVars, balanceVars, coverVars, virtual_clusters, branchVars, hub>>

\* the entries of candidates: the places of the clusters in self.clusters,
\* and after them the hub
HubPlace == Len(clusters) + 1

Completed(i) == IF i = HubPlace THEN hub.completed ELSE clusters[i].completed

\* min(candidates, key=...): the first place of the lowest energy
Least(candidates, energy) ==
    CHOOSE i \in candidates :
        /\ \A j \in candidates : energy[i] <= energy[j]
        /\ \A j \in candidates : j < i => energy[i] < energy[j]

Unassigned == {c \in cells : cluster_id[c] = NOT_CLUSTERED}

MarkCompleted_Never(i) == UNCHANGED growVars

\* c_least.completed = True
MarkCompleted(i) ==
    /\ IF i = HubPlace
       THEN /\ hub' = [hub EXCEPT !.completed = TRUE]
            /\ UNCHANGED clusters
       ELSE /\ clusters' = [clusters EXCEPT ![i].completed = TRUE]
            /\ UNCHANGED hub
    /\ UNCHANGED cluster_id

\* the hub is c_least and some cell is unassigned
GrowHub ==
    IF hub.cells = {damaged}
    THEN \E best_cell \in Unassigned :
             /\ \A c \in Unassigned : proximity(best_cell) <= proximity(c)
             /\ hub' = [hub EXCEPT !.cells = {best_cell}, !.recent = best_cell]
             /\ cluster_id' = [[cluster_id EXCEPT ![damaged] = NOT_CLUSTERED]
                                  EXCEPT ![best_cell] = hub_id]
             /\ UNCHANGED clusters
    ELSE \E p \in closest_nodes(cells \ hub.cells, {hub.recent}) :
             /\ hub' = ClusterAdd(hub, p[1])
             /\ cluster_id' = [cluster_id EXCEPT ![p[1]] = hub_id]
             /\ UNCHANGED clusters

\* closest_nodes of no cells at all
NothingToSearch(i) ==
    /\ i = HubPlace
    /\ Unassigned # {}
    /\ hub.cells # {damaged}
    /\ cells \ hub.cells = {}

FirstMet_AnyCluster(recent, id) ==
    LET met(i) == {n \in cell_neighbors(recent, i) :
                      /\ virtual_cluster_id(n) # NOT_CLUSTERED
                      /\ virtual_cluster_id(n) # id}
        radii == {i \in 1 .. Max2(Cols, Rows) : met(i) # {}}
    IN IF radii = {} THEN {} ELSE met(MinOf(radii))

\* the cells the search in rings around the recent cell can meet first: the
\* cells of the nearest ring that are in a virtual cluster next to vci
FirstMet(recent, id) ==
    LET met(i) == {n \in cell_neighbors(recent, i) :
                      /\ virtual_cluster_id(n) # NOT_CLUSTERED
                      /\ Abs(virtual_cluster_id(n) - id) = 1}
        radii == {i \in 1 .. Max2(Cols, Rows) : met(i) # {}}
    IN IF radii = {} THEN {} ELSE met(MinOf(radii))

\* a cluster other than the hub is c_least and some cell is unassigned
GrowCluster(i) ==
    LET c_least == clusters[i]
        vci == CHOOSE k \in DOMAIN virtual_clusters :
                   virtual_clusters[k].cluster_id = c_least.cluster_id
        candidates == {c \in virtual_clusters[vci].cells :
                          cluster_id[c] = NOT_CLUSTERED}
        add(best_cell) ==
            /\ clusters' = [clusters EXCEPT ![i] = ClusterAdd(c_least, best_cell)]
            /\ cluster_id' = [cluster_id EXCEPT ![best_cell] = c_least.cluster_id]
            /\ UNCHANGED hub
    IN IF candidates # {}
       THEN \E p \in closest_nodes(candidates, {c_least.recent}) : add(p[1])
       ELSE LET met == FirstMet(c_least.recent, c_least.cluster_id) IN
            IF met = {} THEN MarkCompleted(i)
            ELSE \E nbr \in met :
                     IF cluster_id[nbr] # NOT_CLUSTERED
                     THEN MarkCompleted(i)
                     ELSE add(nbr)

\* one round of the while loop
GreedyRound ==
    /\ pc = "expand"
    /\ \E i \in DOMAIN clusters : ~clusters[i].completed
    /\ LET candidates == {i \in 1 .. HubPlace : ~Completed(i)} IN
       \E c_least \in {Least(candidates, energy) :
                            energy \in [candidates -> 1 .. EnergyLevels]} :
           IF NothingToSearch(c_least)
           THEN /\ pc' = "failed"
                /\ err' = "ValueError"
                /\ UNCHANGED growVars
           ELSE /\ IF Unassigned = {} THEN MarkCompleted(c_least)
                   ELSE IF c_least = HubPlace THEN GrowHub
                   ELSE GrowCluster(c_least)
                /\ UNCHANGED <<pc, err>>
    /\ UNCHANGED <<gridVars, balanceVars, coverVars, virtual_clusters, branchVars>>

\* the end of the while loop
GreedyDone ==
    /\ pc = "expand"
    /\ \A i \in DOMAIN clusters : clusters[i].completed
    /\ pc' = "optimization"
    /\ UNCHANGED <<err, gridVars, balanceVars, coverVars, virtual_clusters, branchVars,
                   growVars>>

\* ------------------------------------------------------ energy balancers
\* if r > 100
MAX_ROUNDS == 100

\* the cover of the field in which long runs of rounds are followed
LongCover == {1, 2, 3}

\* all_clusters = self.clusters + [self.hub]: its places
AllClusters == 1 .. HubPlace

IdOf(i) == IF i = HubPlace THEN hub_id ELSE clusters[i].cluster_id

\* the clusters, the hub and the tour-ids, as one value
World == [clusters |-> clusters, hub |-> hub, cluster_id |-> cluster_id]

CellsAt(w, i) ==
    IF i = Len(w.clusters) + 1 THEN w.hub.cells ELSE w.clusters[i].cells

\* the cells of each of all_clusters
Membership(w) == [i \in 1 .. Len(w.clusters) + 1 |-> CellsAt(w, i)]

\* c.remove(cell): the cluster after it
ClusterRemove(c, cell) == [c EXCEPT !.cells = @ \ {cell}]

\* all_clusters[i].remove(cell)
Remove(w, i, cell) ==
    IF i = Len(w.clusters) + 1
    THEN [w EXCEPT !.hub = ClusterRemove(@, cell)]
    ELSE [w EXCEPT !.clusters[i] = ClusterRemove(@, cell)]

\* all_clusters[i].add(cell)
Add(w, i, cell) ==
    IF i = Len(w.clusters) + 1
    THEN [w EXCEPT !.hub = ClusterAdd(@, cell), !.cluster_id[cell] = hub_id]
    ELSE [w EXCEPT !.clusters[i] = ClusterAdd(@, cell),
                   !.cluster_id[cell] = w.clusters[i].cluster_id]

RECURSIVE SumTo(_, _)
SumTo(e, n) == IF n = 0 THEN 0 ELSE e[n] + SumTo(e, n - 1)

\* np.std(e), as Len(e)^2 times its square
Std2(e) ==
    Len(e) * SumTo([i \in DOMAIN e |-> e[i] * e[i]], Len(e))
        - SumTo(e, Len(e)) * SumTo(e, Len(e))

MaxOf(S) == CHOOSE x \in S : \A y \in S : y <= x

\* the energies of all_clusters the energy model can give: each is s or 0
EnergiesOf(s) ==
    {[i \in AllClusters |-> s * shape[i]] :
        shape \in [AllClusters -> 0 .. 1] \ {[i \in AllClusters |-> 0]}}

\* the scales of the energies at the entry of a balancing loop: a few low
\* ones, and in the field of cover LongCover one from which more than
\* MAX_ROUNDS rounds can each lower the deviation
EntryScales ==
    (1 .. EnergyLevels)
        \cup (IF segments = LongCover THEN {MAX_ROUNDS + 2} ELSE {})

\* the energies it can give at the entry of a balancing loop
EnergiesAtEntry == UNION {EnergiesOf(s) : s \in EntryScales}

\* the energies it can give after cells have moved: as high as e or a step
\* lower
EnergiesAfter(e) ==
    LET s == MaxOf({e[i] : i \in DOMAIN e})
    IN UNION {EnergiesOf(t) : t \in {s - 1, s} \ {0}}

\* max(all_clusters, key=...): the first place of the highest energy
Most(e) ==
    CHOOSE i \in DOMAIN e :
        /\ \A j \in DOMAIN e : e[j] <= e[i]
        /\ \A j \in DOMAIN e : j < i => e[j] < e[i]

\* the end of a round: the clusters, the energies and the place of the run
Settle(w, e, place) ==
    /\ clusters' = w.clusters
    /\ hub' = w.hub
    /\ cluster_id' = w.cluster_id
    /\ total_energy' = e
    /\ r_count' = r_count + 1
    /\ pc' = place
    /\ UNCHANGED <<err, entry>>

\* the end of a round whose moves, that led from the clusters before to the
\* clusters moved, were undone
Reverted(before, moved, undone, place) ==
    IF Membership(undone) = Membership(before)
    THEN Settle(undone, total_energy, place)
    ELSE \E e \in EnergiesAfter(total_energy) : Settle(undone, e, place)

\* an exception ends the run, the clusters being w
Raise(w, kind) ==
    /\ pc' = "failed"
    /\ err' = kind
    /\ clusters' = w.clusters
    /\ hub' = w.hub
    /\ cluster_id' = w.cluster_id
    /\ UNCHANGED balanceVars

\* the cells of S that closest_nodes gives for an anchor: the anchor of a
\* cluster is a point of the field
NearAnchor(S) == {p[1] : p \in UNION {closest_nodes(S, {a}) : a \in Cells}}

\* r = 0, and the energies of the clusters as they enter the loop
BalanceStart(from, to) ==
    /\ pc = from
    /\ pc' = to
    /\ r_count' = 0
    /\ total_energy' \in EnergiesAtEntry
    /\ entry' = total_energy'
    /\ UNCHANGED <<err, gridVars, coverVars, virtual_clusters, branchVars,
                   growVars>>

\* handle_large_ec, after handle_large_em
EcStart == BalanceStart("balance_neighbors", "ec_loop")

\* the round of c_most giving a cell to neighbor
NeighborMove(c_most, neighbor) ==
    \E p \in closest_nodes(CellsAt(World, c_most), CellsAt(World, neighbor)) :
        LET c_out == p[1]
            moved == Add(Remove(World, c_most, c_out), neighbor, c_out)
            undone == Add(Remove(moved, neighbor, c_out), c_most, c_out)
        IN \E e \in EnergiesAfter(total_energy) :
               IF Std2(e) >= Std2(total_energy)
               THEN Reverted(World, moved, undone, "ec_done")
               ELSE Settle(moved, e, "ec_loop")

\* one turn of the while loop of handle_large_ec
NeighborRound ==
    /\ pc = "ec_loop"
    /\ IF r_count > MAX_ROUNDS THEN Raise(World, "FlowerError")
       ELSE LET c_most == Most(total_energy)
                nbrs == {i \in AllClusters :
                            Abs(IdOf(i) - IdOf(c_most)) = 1}
            IN IF nbrs = {} THEN Raise(World, "ValueError")
               ELSE LET neighbor == Least(nbrs, total_energy) IN
                    IF CellsAt(World, c_most) = {}
                           \/ CellsAt(World, neighbor) = {}
                    THEN Raise(World, "ValueError")
                    ELSE NeighborMove(c_most, neighbor)
    /\ UNCHANGED <<gridVars, coverVars, virtual_clusters, branchVars>>

\* optimization
OptStart == BalanceStart("optimization", "opt_loop")

\* a round of one move, of a cell of the cluster at place from, nearest an
\* anchor, to the cluster at place to
OneMove(from, to) ==
    IF CellsAt(World, from) = {} THEN Raise(World, "ValueError")
    ELSE \E cell \in NearAnchor(CellsAt(World, from)) :
             LET moved == Add(Remove(World, from, cell), to, cell)
                 undone == Add(Remove(moved, to, cell), from, cell)
             IN \E e \in EnergiesAfter(total_energy) :
                    IF Std2(e) >= Std2(total_energy)
                    THEN Reverted(World, moved, undone, "done")
                    ELSE Settle(moved, e, "opt_loop")

\* a round of two moves: the hub gives a cell to c_least, then c_most
\* gives one to the hub
TwoMoves(c_least, c_most) ==
    IF hub.cells = {} THEN Raise(World, "ValueError")
    ELSE \E c_out \in NearAnchor(hub.cells) :
        LET grown == Add(Remove(World, HubPlace, c_out), c_least, c_out) IN
        IF CellsAt(grown, c_most) = {} THEN Raise(grown, "ValueError")
        ELSE \E c_in \in NearAnchor(CellsAt(grown, c_most)) :
            LET moved == Add(Remove(grown, c_most, c_in), HubPlace, c_in)
                back == Add(Remove(moved, c_least, c_out), HubPlace, c_out)
                undone == Add(Remove(back, HubPlace, c_in), c_most, c_in)
            IN \E e \in EnergiesAfter(total_energy) :
                   IF Std2(e) >= Std2(total_energy)
                   THEN Reverted(World, moved, undone, "done")
                   ELSE Settle(moved, e, "opt_loop")

\* one turn of the while loop of optimization
OptRound ==
    /\ pc = "opt_loop"
    /\ LET c_least == Least(AllClusters, total_energy)
           c_most == Most(total_energy)
       IN IF r_count > MAX_ROUNDS THEN Raise(World, "FlowerError")
          ELSE IF c_least = HubPlace THEN OneMove(c_most, HubPlace)
          ELSE IF c_most = HubPlace THEN OneMove(HubPlace, c_least)
          ELSE TwoMoves(c_least, c_most)
    /\ UNCHANGED <<gridVars, coverVars, virtual_clusters, branchVars>>

\* ---------------------------------------------------------------- claims
\* every segment is reached by a cell of non-zero access
EverySegmentReachable ==
    \A s \in segments :
        \E c \in Cells : cell_access[c] # 0 /\ s \in cell_segments[c]

\* the segments the cells of the cover reach
CoverReach == UNION {cell_segments[c] : c \in cell_cover}

\* C1: in a grid whose every segment is reached by a cell of non-zero
\* access the cover loop terminates (while segments are left to cover, a
\* turn of the loop changes the state: the loop is deterministic, so a turn
\* that changes nothing is repeated for ever), and after it the segments
\* the cells of the cover reach are exactly all the segments.
C1_CoverLoopTerminates ==
    EverySegmentReachable =>
        /\ pc = "init_cells" /\ segment_cover # segments
               => ENABLED <<CoverPick>>_vars
        /\ pc = "init_cells" /\ segment_cover = segments
               => CoverReach = segments

\* init_cells has returned
Covered == pc \notin {"init_cells"} /\ err \notin {"AssertionError", "AttributeError"}

\* C2: init_cells fails with the assertion exactly when the cover is not
\* larger than the agent count; when it fails no segment refers to a cell
\* and self.cells is still the list that holds the list of the grid's
\* cells; when it returns the cover is
\* larger than the agent count, self.cells is the cover and every segment
\* refers to a cell of the cover that reaches it.
C2_InsufficientCover ==
    /\ pc # "init_cells" /\ err # "AttributeError"
           => (err = "AssertionError" <=> Cardinality(cell_cover) <= mdc_count)
    /\ err = "AssertionError"
           => /\ pc = "failed"
              /\ \A s \in segments : seg_cell[s] = NoCell
              /\ cells = <<CellList>>
              /\ virtual_clusters = <<>> /\ clusters = <<>>
    /\ Covered
           => /\ Cardinality(cell_cover) > mdc_count
              /\ cells = cell_cover
              /\ \A s \in segments :
                     seg_cell[s] \in cell_cover /\ s \in cell_segments[seg_cell[s]]

C2_Witness ==
    /\ err = "AssertionError"
    /\ Cardinality(cell_cover) = mdc_count
    /\ mdc_count = 3

\* create_virtual_clusters has returned
Built ==
    pc \notin {"init_cells", "create_virtual_clusters", "combine"} /\ Covered

\* C3, as claimed: with 3 agents and a cover of exactly 3 cells planning
\* does not fail in init_cells and 2 virtual clusters are built.
C3_ScenarioPlans ==
    mdc_count = 3 /\ Cardinality(cell_cover) = 3
    /\ segment_cover = segments /\ pc # "init_cells"
        => /\ err = "none"
           /\ Built => Len(virtual_clusters) = 2

\* C3, amended: with 3 agents a cover of exactly 3 cells fails the
\* assertion of init_cells and no virtual cluster is built; a cover of 4
\* cells or more passes it, and then 2 virtual clusters are built.
C3_ScenarioFails ==
    mdc_count = 3 /\ segment_cover = segments /\ pc # "init_cells"
        => /\ Cardinality(cell_cover) = 3
                  => /\ pc = "failed" /\ err = "AssertionError"
                     /\ virtual_clusters = <<>>
           /\ Cardinality(cell_cover) >= 4
                  => /\ err # "AssertionError"
                     /\ Built => Len(virtual_clusters) = 2

C3_Witness ==
    /\ mdc_count = 3 /\ Cardinality(cell_cover) = 3
    /\ segment_cover = segments
    /\ pc = "failed"

\* the places of the virtual clusters a cell is in
VcsOf(c) == {i \in DOMAIN virtual_clusters : c \in virtual_clusters[i].cells}

\* C4: from one virtual cluster for each cell of the cover, the builder
\* ends with mdc_count - 1 virtual clusters, and while it merges and after
\* it every cell of the cover is in exactly one virtual cluster, which
\* holds cells of the cover only.
C4_ClusterCount ==
    /\ pc = "combine" \/ Built
           => /\ \A c \in cells : Cardinality(VcsOf(c)) = 1
              /\ \A i \in DOMAIN virtual_clusters :
                     /\ virtual_clusters[i].cells # {}
                     /\ virtual_clusters[i].cells \subseteq cells
              /\ Len(virtual_clusters) >= mdc_count - 1
    /\ Built => Len(virtual_clusters) = mdc_count - 1

C4_Witness ==
    /\ Built
    /\ Cardinality(cells) = 5
    /\ mdc_count = 3
    /\ Len(virtual_clusters) = 2

\* the direction of a vector, that of the x axis for the null vector
C5_Direction(v) == IF v.x = 0 /\ v.y = 0 THEN [x |-> 1, y |-> 0] ELSE v

\* around an origin that no point is left of or, at the same x, below, the
\* angle of p is larger than the angle of q
C5_LargerAngle(p, q, o) ==
    LET v == C5_Direction(Vector(p, o))
        w == C5_Direction(Vector(q, o))
    IN w.x * v.y - w.y * v.x > 0

\* C5: after the relabeling the ids of the k virtual clusters are 0..k-1,
\* each once, and a cluster of a smaller id never has a larger polar angle,
\* around the location with the smallest (x, y), than one of a larger id.
C5_PolarOrder ==
    Built =>
        LET n == Len(virtual_clusters)
            at(i) == location(virtual_clusters[i])
            o == at(CHOOSE i \in 1 .. n :
                        \A j \in 1 .. n : ~KeyLess(at(j), at(i)))
        IN /\ {virtual_clusters[i].cluster_id : i \in 1 .. n} = 0 .. n - 1
           /\ \A i, j \in 1 .. n :
                  i # j => virtual_clusters[i].cluster_id
                               # virtual_clusters[j].cluster_id
           /\ \A i, j \in 1 .. n :
                  virtual_clusters[i].cluster_id < virtual_clusters[j].cluster_id
                      => ~C5_LargerAngle(at(i), at(j), o)

C5_Witness ==
    /\ Built
    /\ Len(virtual_clusters) = 3
    /\ \E i, j \in DOMAIN virtual_clusters :
           /\ virtual_clusters[i].cluster_id = 0
           /\ virtual_clusters[j].cluster_id = 2
           /\ polar_angle_less(location(virtual_clusters[i]),
                               location(virtual_clusters[j]),
                               Origin([k \in DOMAIN virtual_clusters |->
                                          location(virtual_clusters[k])]))

\* the places of the three strategies
InLargeEm == pc \in {"handle_large_em", "em_done"}
InLargeEc ==
    pc \in {"handle_large_ec", "balance_neighbors", "ec_loop", "ec_done"}
InBalanced ==
    pc \in {"greedy_expansion", "expand", "optimization", "opt_loop", "done"}

\* compute_paths has chosen
Branched == Built /\ pc \notin {"compute_paths", "failed"}

\* C6: for positive energies exactly one strategy runs: the movement one
\* iff comms / mech < 0.2, the communication one iff mech / comms < 0.2,
\* the balanced one iff neither; the two are never both so.
C6_Branch ==
    Branched =>
        /\ mech_energy > 0 /\ comms_energy > 0
        /\ InLargeEm <=> 10 * comms_energy < 2 * mech_energy
        /\ InLargeEc <=> 10 * mech_energy < 2 * comms_energy
        /\ InBalanced <=> /\ 10 * comms_energy >= 2 * mech_energy
                          /\ 10 * mech_energy >= 2 * comms_energy
        /\ ~(10 * comms_energy < 2 * mech_energy
             /\ 10 * mech_energy < 2 * comms_energy)
        /\ em_is_large <=> InLargeEm
        /\ ec_is_large <=> InLargeEc

C6_Witness ==
    /\ pc = "greedy_expansion"
    /\ mech_energy = 5 * comms_energy

\* a step gives one cluster for each virtual cluster, with its id and
\* exactly its cells, and leaves the hub's cells and the virtual clusters
MirrorStep ==
    /\ Len(clusters') = Len(virtual_clusters)
    /\ \A i \in DOMAIN virtual_clusters :
           Cardinality({k \in DOMAIN clusters' :
               clusters'[k].cluster_id = virtual_clusters[i].cluster_id}) = 1
    /\ \A k \in DOMAIN clusters' :
           \E i \in DOMAIN virtual_clusters :
               /\ clusters'[k].cluster_id = virtual_clusters[i].cluster_id
               /\ clusters'[k].cells = virtual_clusters[i].cells
    /\ hub'.cells = hub.cells
    /\ virtual_clusters' = virtual_clusters

\* C7: when handle_large_em returns there is one cluster for each virtual
\* cluster, with its id and exactly its cells, and the cells of the hub and
\* the virtual clusters are as before.
C7_Mirror ==
    [][(pc \in {"handle_large_em", "handle_large_ec"}) => MirrorStep]_vars

C7_Witness ==
    /\ pc = "em_done"
    /\ Len(clusters) = 3
    /\ \E k \in DOMAIN clusters : Cardinality(clusters[k].cells) >= 2

\* the growth engine has returned
Grown == pc \in {"optimization", "em_done", "balance_neighbors"}

\* the places, among the clusters and the hub, that hold a cell
HoldersOf(c) ==
    {i \in 1 .. HubPlace :
        c \in (IF i = HubPlace THEN hub.cells ELSE clusters[i].cells)}

\* C8: when the growth engine returns (greedy_expansion in the balanced
\* branch, handle_large_em in the two others) every cell of the cover is in
\* a cluster or in the hub and its tour-id is not the placeholder.
C8_AllAssigned ==
    Grown =>
        \A c \in cells :
            /\ cluster_id[c] # NOT_CLUSTERED
            /\ HoldersOf(c) # {}

\* the hub has left the center of the damaged area
Relocated == damaged \notin hub.cells \/ Cardinality(hub.cells) > 1

\* C9: while the clusters grow and after, no cell is in two of the clusters
\* and the hub; the hub that still holds nothing but the center of the
\* damaged area, where it was put at construction, is not counted.
C9_NoSharedCell ==
    pc \in {"expand", "optimization", "em_done", "balance_neighbors"} =>
        \A c \in cells :
            Cardinality(HoldersOf(c) \ (IF Relocated THEN {} ELSE {HubPlace}))
                <= 1

\* C10, as claimed: when greedy_expansion has returned every cluster and
\* the hub are marked completed.
C10_AllCompleted ==
    pc = "optimization" =>
        /\ hub.completed
        /\ \A i \in DOMAIN clusters : clusters[i].completed

\* the clusters, the hub among them, that are not marked completed
Uncompleted == {i \in 1 .. HubPlace : ~Completed(i)}

\* a natural number that every round of the loop lowers
Rounds ==
    Cardinality(Uncompleted) + Cardinality(Unassigned)
        + Cardinality(cells \ hub.cells)
        + (IF hub.cells = {damaged} THEN 2 ELSE 0)

\* a step of greedy_expansion
GreedyStep ==
    /\ pc' \in {"expand", "optimization"}
    /\ err' = "none"
    /\ pc = "expand" /\ pc' = "expand" => Rounds' < Rounds
    /\ pc' = "optimization"
           => \A i \in DOMAIN clusters' : clusters'[i].completed

\* C10, amended: greedy_expansion never raises and its loop ends (while it
\* runs a round can be taken, and every round lowers a natural number), and
\* when it has returned every cluster other than the hub is marked
\* completed (the hub may or may not be).
C10_Terminates ==
    /\ [](pc = "expand" => ENABLED <<GreedyRound \/ GreedyDone>>_vars)
    /\ [][(pc \in {"greedy_expansion", "expand"}) => GreedyStep]_vars

C10_Witness ==
    /\ pc = "optimization"
    /\ ~hub.completed
    /\ Len(clusters) = 3
    /\ Relocated

\* a step of the growth loop seen from the hub
PlaceholderStep ==
    /\ hub.cells = {damaged} /\ hub'.cells # hub.cells
           => \E best_cell \in Unassigned :
                  /\ \A c \in Unassigned : proximity(best_cell) <= proximity(c)
                  /\ hub'.cells = {best_cell}
    /\ damaged \notin hub.cells => damaged \notin hub'.cells

\* C11: in greedy_expansion the hub holds the center of the damaged area,
\* and nothing else, until its first growth; that step replaces the center
\* by the unassigned cell of lowest proximity, and once the center has left
\* the hub no later step of the growth makes it a member again.
C11_Placeholder ==
    [][(pc = "expand") =>
          /\ damaged \in hub.cells => hub.cells = {damaged}
          /\ PlaceholderStep]_vars

\* the cells the cover loop compares after the first pick
Eligible == {c \in Cells : cell_access[c] # 0 /\ c # damaged}

\* the cell a turn of the cover loop has just added
Chosen == picks'[Len(picks')]

\* the turn is a pick after the first one that adds a cell
LaterPick == pc = "init_cells" /\ picks # <<>> /\ picks' # picks

\* cell c comes before cell d in the claimed order of the tie-break
Preferred(c, d) ==
    \/ cell_access[c] < cell_access[d]
    \/ /\ cell_access[c] = cell_access[d]
       /\ signal_hop_count(c) > signal_hop_count(d)
    \/ /\ cell_access[c] = cell_access[d]
       /\ signal_hop_count(c) = signal_hop_count(d)
       /\ proximity(c) < proximity(d)

\* C15: among the eligible cells that add as many segments as the cell a
\* pick (after the first) chooses, none comes before the chosen cell in the
\* order: lower access, then higher signal-hop count, then lower proximity.
C15_TieBreak ==
    [][LaterPick =>
          \A c \in Eligible :
              PotUnion(segment_cover, c) = PotUnion(segment_cover, Chosen)
                  => ~Preferred(c, Chosen)]_vars

\* C16: the cell a pick after the first adds to the cover has non-zero
\* access, and with it the covered set is at least as large as with any
\* other eligible cell; it adds a new segment whenever an eligible cell does.
C16_GreedyStep ==
    [][LaterPick =>
          /\ cell_access[Chosen] # 0
          /\ \A c \in Eligible :
                 PotUnion(segment_cover, c) <= PotUnion(segment_cover, Chosen)
          /\ (\E c \in Eligible : ~(cell_segments[c] \subseteq segment_cover))
                 => ~(cell_segments[Chosen] \subseteq segment_cover)]_vars

\* the second pick completed the cover, although another eligible cell,
\* scanned before the chosen one, adds nothing to the first pick
C16_Witness ==
    /\ pc = "init_cells"
    /\ Len(picks) = 2
    /\ segment_cover = segments
    /\ cell_segments[picks[1]] # segments
    /\ \E c \in Eligible \ cell_cover :
           /\ c < picks[2]
           /\ cell_segments[c] \subseteq cell_segments[picks[1]]

\* C17: the center of the damaged area is never added to the cover by a
\* pick other than the first.
C17_PlaceholderSkipped ==
    /\ \A i \in DOMAIN picks : picks[i] = damaged => i = 1
    /\ damaged \in cell_cover => picks # <<>> /\ picks[1] = damaged

\* a later pick was made while the center, of non-zero access, reached
\* every segment and was not in the cover
C17_Witness ==
    /\ Len(picks) = 2
    /\ cell_access[damaged] # 0
    /\ cell_segments[damaged] = segments
    /\ damaged \notin cell_cover

\* the cells of a cluster's own virtual cluster that have no tour-id
OwnLeft(i) ==
    {c \in cells : /\ virtual_cluster_id(c) = clusters[i].cluster_id
                   /\ cluster_id[c] = NOT_CLUSTERED}

\* the cells cluster i gets in a step: new members, and members whose
\* tour-id the step sets to the cluster's
Received(i) ==
    {c \in clusters'[i].cells :
        \/ c \notin clusters[i].cells
        \/ cluster_id[c] # cluster_id'[c]
               /\ cluster_id'[c] = clusters[i].cluster_id}

\* a round of the growth loop seen from the cluster at place i
ClusterStep(i) ==
    /\ \A c \in Received(i) :
           /\ cluster_id[c] = NOT_CLUSTERED
           /\ \/ virtual_cluster_id(c) = clusters[i].cluster_id
              \/ /\ virtual_cluster_id(c) # NOT_CLUSTERED
                 /\ Abs(virtual_cluster_id(c) - clusters[i].cluster_id) = 1
                 /\ OwnLeft(i) = {}
                 /\ c \in FirstMet(clusters[i].recent, clusters[i].cluster_id)
    /\ clusters'[i] # clusters[i] /\ Unassigned # {} /\ OwnLeft(i) = {}
       /\ (\A n \in FirstMet(clusters[i].recent, clusters[i].cluster_id) :
               cluster_id[n] # NOT_CLUSTERED)
           => clusters'[i].completed /\ Received(i) = {}
    /\ ~clusters[i].completed /\ clusters'[i].completed => Received(i) = {}
    /\ clusters[i].completed => clusters'[i] = clusters[i]

\* C18: in a round of the growth loop a cell a cluster other than the hub
\* gets had no tour-id and is of the cluster's own virtual cluster or, once
\* no cell of the own one is left, of one whose id differs by 1; when the
\* first such cell the ring search meets has a tour-id the cluster is marked
\* completed and gets nothing, and a completed cluster never gets a cell.
C18_ClusterGrowth ==
    [][(pc = "expand" /\ pc' = "expand") =>
          \A i \in DOMAIN clusters : ClusterStep(i)]_vars

\* of three clusters one holds a cell of a neighbouring virtual cluster and
\* another was completed by a collision while a cell had no tour-id
C18_Witness ==
    /\ pc = "expand"
    /\ Len(clusters) = 3
    /\ Unassigned # {}
    /\ \E i \in DOMAIN clusters : \E c \in clusters[i].cells :
           /\ virtual_cluster_id(c) # clusters[i].cluster_id
           /\ cluster_id[c] = clusters[i].cluster_id
    /\ \E i \in DOMAIN clusters : clusters[i].completed

\* a turn of a balancing loop that moved cells: the rounds counted are one
\* more after it
MoveRound ==
    /\ pc \in {"ec_loop", "opt_loop"}
    /\ r_count' = r_count + 1

\* C12: a balancing loop runs at most MAX_ROUNDS rounds that move a cell:
\* no round moves a cell once MAX_ROUNDS rounds have moved one, so that the
\* rounds counted after a round that moved a cell are at most MAX_ROUNDS.
C12_AtMostHundred == [][MoveRound => r_count' <= MAX_ROUNDS]_vars

\* a turn of a balancing loop after which the loop goes on
AcceptedRound ==
    /\ pc \in {"ec_loop", "opt_loop"}
    /\ pc' = pc

\* the loop has stopped on a round that did not improve
Stopped == pc \in {"ec_done", "done"}

\* the deviation at the start of a round is lower than at the start of the
\* round before it
RoundsDecrease ==
    [][AcceptedRound => Std2(total_energy') < Std2(total_energy)]_vars

\* the deviation at the exit of the loop is at most the one at its entry,
\* and equal to it only if the first round was undone
ExitBelowEntry ==
    Stopped =>
        /\ Std2(total_energy) <= Std2(entry)
        /\ Std2(total_energy) = Std2(entry) => r_count = 1

\* C13: in both balancing loops the standard deviation of the energies of
\* the clusters and the hub at the start of a round is strictly smaller
\* than at the start of the round before; at the exit it is at most the
\* deviation at the entry, and equal to it only if the very first round was
\* undone.
C13_Decreasing == RoundsDecrease /\ []ExitBelowEntry

\* a turn of a balancing loop whose moves were undone: the loop stops
RevertedRound ==
    /\ pc \in {"ec_loop", "opt_loop"}
    /\ pc' \in {"ec_done", "done"}

\* C14: a round that does not lower the standard deviation undoes its
\* moves: after it every cluster and the hub have the cells they had at the
\* start of the round, in the neighbor pass and in the three cases of the
\* full pass.
C14_RevertRestores ==
    [][RevertedRound =>
          /\ hub'.cells = hub.cells
          /\ \A i \in DOMAIN clusters :
                 clusters'[i].cells = clusters[i].cells]_vars

\* the cell c has moved from the cluster at place d to the one at place n,
\* and nothing else has
MovedOne(c, d, n) ==
    /\ c \in CellsAt(World, d)
    /\ CellsAt(World', d) = CellsAt(World, d) \ {c}
    /\ CellsAt(World', n) = CellsAt(World, n) \cup {c}
    /\ \A i \in AllClusters \ {d, n} : CellsAt(World', i) = CellsAt(World, i)

\* d is a cluster of the highest energy, n one of the lowest energy among
\* those whose id is at distance 1 of the id of d
DonorAndNeighbor(d, n) ==
    /\ \A i \in AllClusters : total_energy[i] <= total_energy[d]
    /\ Abs(IdOf(n) - IdOf(d)) = 1
    /\ \A i \in AllClusters :
           Abs(IdOf(i) - IdOf(d)) = 1 => total_energy[n] <= total_energy[i]

\* an accepted round of the neighbor pass moves one cell from a most
\* expensive cluster to its cheapest neighbor
NeighborRoundMoves ==
    (pc = "ec_loop" /\ pc' = "ec_loop") =>
        \E d, n \in AllClusters : \E c \in Cells :
            DonorAndNeighbor(d, n) /\ MovedOne(c, d, n)

\* the neighbor pass fails with the divergence error only
NeighborRoundFails ==
    (pc = "ec_loop" /\ pc' = "failed") => err' = "FlowerError"

\* C19: in every round of the neighbor pass one cell moves, from a cluster
\* of the highest energy among the clusters and the hub to a cluster whose
\* id differs from the donor's by 1 and whose energy is the lowest among
\* those; the pass fails with the divergence error or not at all.
C19_NeighborPass == [][NeighborRoundMoves /\ NeighborRoundFails]_vars

\* the first half of C19 alone: what an accepted round moves
C19_Moves == [][NeighborRoundMoves]_vars

\* the number of cells of the cluster at place i
SizeAt(w, i) == Cardinality(CellsAt(w, i))

\* two cells have moved in a round: c_in from c_most into the hub, c_out
\* from the hub as it was at the start of the round into c_least
MovedTwo(c_out, c_in, c_least, c_most) ==
    /\ c_out \in hub.cells
    /\ c_in \in CellsAt(World, c_most)
    /\ c_in \in hub'.cells
    /\ c_out \in CellsAt(World', c_least)
    /\ SizeAt(World', c_most) = SizeAt(World, c_most) - 1
    /\ SizeAt(World', c_least) = SizeAt(World, c_least) + 1
    /\ Cardinality(hub'.cells) = Cardinality(hub.cells)
    /\ \A i \in AllClusters \ {c_least, c_most, HubPlace} :
           CellsAt(World', i) = CellsAt(World, i)

\* what an accepted round of optimization moves
OptRoundMoves ==
    (pc = "opt_loop" /\ pc' = "opt_loop") =>
        LET c_least == Least(AllClusters, total_energy)
            c_most == Most(total_energy)
        IN IF c_least = HubPlace
           THEN \E c \in Cells : MovedOne(c, c_most, HubPlace)
           ELSE IF c_most = HubPlace
           THEN \E c \in Cells : MovedOne(c, HubPlace, c_least)
           ELSE \E c_out, c_in \in Cells :
                    MovedTwo(c_out, c_in, c_least, c_most)

\* C20: an accepted round of optimization in which the hub is neither the
\* cheapest nor the most expensive moves two cells, one from c_most into
\* the hub and one from the hub, as it was at the start of the round, into
\* c_least: c_most has one cell less, c_least one more, the hub as many,
\* and the cell received from c_most is in the hub at the end of the round.
\* A round in which the hub is the cheapest moves one cell from c_most into
\* the hub; one in which it is the most expensive, one cell from the hub
\* into c_least.
C20_FullPass == [][OptRoundMoves]_vars

\* the number of the clusters, the hub among them, that hold the cell c
Copies(w, c) ==
    Cardinality({i \in 1 .. Len(w.clusters) + 1 : c \in CellsAt(w, i)})

\* the cells of the clusters and the hub, each as often as it is held, are
\* the same before and after a step
CellsConserved == \A c \in Cells : Copies(World', c) = Copies(World, c)

\* C21: balancing conserves cells. After every completed round of
\* handle_large_ec and of optimization, accepted or undone, the cells of
\* the clusters and the hub, counted as often as they are held, are those
\* of the round's start, and so those of the entry of the loop: a round
\* creates, duplicates and drops no cell.
C21_CellsConserved == [][MoveRound => CellsConserved]_vars

\* ------------------------------------------------------------------ Init
\* the state after Flower.__init__, but for the grid
Constructed ==
    /\ pc = "init_cells"
    /\ err = "none"
    /\ segment_cover = {}
    /\ cell_cover = {}
    /\ picks = <<>>
    /\ seg_cell = [s \in segments |-> NoCell]
    /\ cells = <<CellList>>
    /\ virtual_clusters = <<>>
    /\ mech_energy = 0
    /\ comms_energy = 0
    /\ em_is_large = FALSE
    /\ ec_is_large = FALSE
    /\ clusters = <<>>
    /\ hub = [cells |-> {damaged}, completed |-> FALSE, recent |-> damaged]
    /\ cluster_id = [c \in Cells |->
                        IF c = damaged THEN hub_id ELSE NOT_CLUSTERED]
    /\ r_count = 0
    /\ total_energy = <<>>
    /\ entry = <<>>

\* grids of a few cells that reach segments, each any set of them, a cell
\* of non-zero access at least one; the cover of such a grid has at most
\* NumSegs cells, and every agent count from NumSegs on fails alike
InitCover ==
    /\ segments = 1 .. NumSegs
    /\ mdc_count \in 2 .. NumSegs
    /\ \E active \in {A \in SUBSET Cells : Cardinality(A) = MaxActive} :
       \E access \in [active -> 0 .. MaxAccess] :
       \E reach \in [active -> SUBSET segments] :
           /\ \A c \in active : access[c] # 0 => reach[c] # {}
           /\ cell_access =
                  [c \in Cells |-> IF c \in active THEN access[c] ELSE 0]
           /\ cell_segments =
                  [c \in Cells |-> IF c \in active THEN reach[c] ELSE {}]
    /\ \A s \in segments : \E c \in Cells : s \in cell_segments[c]
    /\ Constructed

\* the covers of the fields of InitBalance: a row, and cells with the center
BalanceFields == {<<2, {5, 6, 7}>>, <<3, {1, 2, 3, 4}>>}

\* the field of the long runs
RoundsFields == {<<2, LongCover>>}

\* the cells of the covers of the fields of MaxMdc agents: the first rows
TopCells == 1 .. TopRows * Cols

\* grids in which every cell that reaches a segment reaches one, its own;
\* with MaxMdc agents these are cells of the first TopRows rows
Init ==
    /\ mdc_count \in 2 .. MaxMdc
    /\ \E S \in {A \in SUBSET Cells : Cardinality(A) <= MaxCover} :
           /\ mdc_count = MaxMdc => S \subseteq TopCells
           /\ segments = S
           /\ cell_access = [c \in Cells |-> IF c \in S THEN 1 ELSE 0]
           /\ cell_segments = [c \in Cells |-> IF c \in S THEN {c} ELSE {}]
    /\ Constructed

\* init_cells
NextCover ==
    \/ CoverPick
    \/ CoverCheck

\* compute_paths up to the call of optimization
NextRounds ==
    \/ CoverPick
    \/ CoverCheck
    \/ VcStart
    \/ VcCombine
    \/ VcRelabel
    \/ ComputePaths
    \/ handle_large_em
    \/ GreedyFirst
    \/ GreedyRound
    \/ GreedyDone
    \/ EcStart
    \/ NeighborRound

\* compute_paths
Next ==
    \/ NextRounds
    \/ OptStart
    \/ OptRound

Spec == Init /\ [][Next]_vars

\* the runs of Spec up to the call of optimization
SpecGrowth == Init /\ [][NextRounds]_vars

SpecCover == InitCover /\ [][NextCover]_vars

\* the field of f[1] agents whose cover is the cells f[2], each reaching a
\* segment of its own
InitField(f) ==
    /\ mdc_count = f[1]
    /\ segments = f[2]
    /\ cell_access = [c \in Cells |-> IF c \in f[2] THEN 1 ELSE 0]
    /\ cell_segments = [c \in Cells |-> IF c \in f[2] THEN {c} ELSE {}]
    /\ Constructed

\* fields of 2 or 3 agents, with and without the damaged cell in the cover
InitBalance == \E f \in BalanceFields : InitField(f)

\* the field of cover LongCover
InitRounds == \E f \in RoundsFields : InitField(f)

SpecBalance == InitBalance /\ [][Next]_vars

SpecRounds == InitRounds /\ [][NextRounds]_vars
====
